---- MODULE Spec2Model ----
(***************************************************************************)
(* Model of descargar/zipgrade_scraper.py: the run of main() -- startup    *)
(* checks, the scoped browser session (chrome_driver), login, listing,     *)
(* filtering, the initial pass of process_batch, the retry rounds with     *)
(* linear backoff, the final report and the teardown of the session.       *)
(*                                                                         *)
(* One export attempt (open_quiz_and_download) is seen here through its    *)
(* outcome: the path it returns or the exception it raises.  The remote    *)
(* system chooses the outcome, so it is a nondeterministic input of the    *)
(* step that processes one quiz.                                           *)
(*                                                                         *)
(* AttemptSpec follows the calls of open_quiz_and_download for one quiz    *)
(* statement by statement, with the download directory, the browser's     *)
(* windows and downloads, and the rate-limit message; its outcome is       *)
(* handed to the same process_batch step.  ResolveSpec follows one call    *)
(* of wait_for_first or wait_for_all, candidate by candidate; ListSpec     *)
(* follows one call of list_quizzes, row by row; NamingSpec follows the    *)
(* building of the name of one export, with sanitize_filename computed on  *)
(* sequences of characters.                                                *)
(***************************************************************************)
EXTENDS Integers, Sequences, FiniteSets, TLC

\* ------------------------------------------------------------------------
\* Bounds of the model (not program constants)
\* ------------------------------------------------------------------------

\* largest number of rows the quizzes page lists
MaxQuizzes == 4

\* largest number of rows listed in the specification with fairness
MaxLiveQuizzes == 2

\* largest number of attempts of a run that end in a popup (Spec only)
MaxPopups == 1

\* rows of the page list_quizzes is followed on, row by row
MaxRows == 3

\* length of the short titles a name is built for
MaxTitleLen == 3

\* calls of open_quiz_and_download followed step by step, downloads the
\* browser starts, and windows one click opens
MaxAttempts == 2
MaxDownloads == 2
MaxNewWindows == 2

\* candidates in a list given to wait_for_first or wait_for_all, and
\* elements of the page they may match
MaxCands == 3
MaxElems == 2

\* ------------------------------------------------------------------------
\* Program constants
\* ------------------------------------------------------------------------

\* max_rounds = 3  # number of retry rounds
max_rounds == 3

\* backoff_seconds = 30  # base backoff between rounds
backoff_seconds == 30

\* while elapsed < 60
poll_limit == 60

\* poll_interval = 1.0
poll_interval == 1

\* ------------------------------------------------------------------------
\* The listing page: row i of the table, as list_quizzes reads it
\* ------------------------------------------------------------------------

RowIds == 1..MaxQuizzes

\* title_link.text of row i (characters, so that the --only filter is computed)
RowTitle(i) ==
    IF i % 2 = 1 THEN <<"Q", "u", "i", "z">> ELSE <<"E", "x", "a", "m">>

\* date_cell.text of row i; every third row has no date
RowDate(i) == IF i % 3 = 0 THEN "" ELSE "2024-05-01"

\* what the final report prints of a quiz: f"  - {quiz['title']} ({quiz['date_text']})"
Descriptor(q) == <<RowTitle(q), RowDate(q)>>

\* str.lower() on the characters the titles and the filter use
LowerCh(c) ==
    CASE c = "Q" -> "q"
      [] c = "E" -> "e"
      [] c = "U" -> "u"
      [] c = "X" -> "x"
      [] OTHER -> c

\* the elements of a sequence
Range(seq) == {seq[i] : i \in 1..Len(seq)}

Lower(s) == [i \in 1..Len(s) |-> LowerCh(s[i])]

\* Python's `sub in s` on strings
Contains(sub, s) ==
    \E i \in 0..(Len(s) - Len(sub)) : SubSeq(s, i + 1, i + Len(sub)) = sub

\* values of --only the model draws from; <<>> is "not given" (None or "")
OnlyChoices == {<<>>, <<"Q", "U">>, <<"x", "a">>, <<"z", "z">>}

\* values of --max the model draws from; 0 is "not given" (None or 0)
MaxChoices == 0..MaxQuizzes

\* quizzes = [q for q in quizzes if substring in q["title"].lower()]
FilterOnly(qs, only) ==
    IF only = <<>> THEN qs
    ELSE SelectSeq(qs, LAMBDA q : Contains(Lower(only), Lower(RowTitle(q))))

\* quizzes = quizzes[: args.max]
FilterMax(qs, m) ==
    IF m = 0 THEN qs
    ELSE SubSeq(qs, 1, IF m < Len(qs) THEN m ELSE Len(qs))

\* ------------------------------------------------------------------------
\* Outcomes of one call of open_quiz_and_download
\* ------------------------------------------------------------------------

\* "Ok": a path is returned.  The others are what the call raises:
\*   Popup             PopupError
\*   RateLimited       RateLimitError
\*   Timeout           TimeoutException of the download wait
\*   NotFound          TimeoutException of wait_for_first (no export link)
\*   DriverError       WebDriverException of a crashed or unresponsive session
\*   KeyboardInterrupt the interruption of the run in the middle of a task
Outcomes ==
    {"Ok", "Popup", "RateLimited", "Timeout", "NotFound", "DriverError",
     "KeyboardInterrupt"}

\* in a dry run the call returns before the export link is clicked, so the
\* popup check, the rate-limit checks and the download wait are never reached
PossibleOutcomes(dry) ==
    IF dry THEN {"Ok", "NotFound", "DriverError", "KeyboardInterrupt"}
    ELSE Outcomes

\* subclasses of Exception among the outcomes (KeyboardInterrupt is a
\* BaseException that is no Exception)
IsException(o) ==
    o \in {"Popup", "RateLimited", "Timeout", "NotFound", "DriverError"}

VARIABLES
    pc,            \* where main() is
    dry_run,       \* args.dry_run
    session,       \* the browser session: "none", "running", "closed", "quit_failed"
    raised,        \* the exception that is propagating out of main(), or "none"
    exit_code,     \* the exit status of the process, once pc = "exited"
    selected,      \* the quizzes kept by the filters (set of row ids)
    batch,         \* the list process_batch is working on
    rate_limited,  \* the holding list of main()
    rounds,        \* rounds
    processed,     \* the counter `processed` of the running process_batch
    waits,         \* the arguments of the time.sleep(wait_time) calls, in order
    written,       \* quizzes whose non-dry attempt returned a path
    reported,      \* the lines of the final report
    hist,          \* per quiz: what its attempts were
    last,          \* the most recent attempt: quiz and outcome
    environ        \* what main() finds: the two credentials and whether the
                   \* download directory can be created

\* one call of open_quiz_and_download, step by step, and what the call
\* works on; the fields are named below
VARIABLE attempt

\* where the call is ("idle": no call is running)
apc == attempt.apc

\* the download directory: records [name, mtime, data]
files == attempt.files

\* the directory as it was when the call began
files0 == attempt.files0

\* the downloads of the browser: "none", "partial", "done"
dl == attempt.dl

\* the modification time of the latest completed file
clock == attempt.clock

\* driver.window_handles
handles == attempt.handles

\* the window the driver is switched to
focus == attempt.focus

\* whether the page shows "too many attempts"
rate_phrase == attempt.rate_phrase

\* before_files
before_files == attempt.before_files

\* original_handles
original_handles == attempt.original_handles

\* which of the two snapshots have been taken
snapped == attempt.snapped

\* whether download_link.click() has been called
clicked == attempt.clicked

\* elapsed
elapsed == attempt.elapsed

\* target_path (its name), <<>> before it is computed
target_path == attempt.target_path

\* the name printed by "Would download: ..."
announced == attempt.announced

\* the file `latest` that was renamed, as it was found
taken == attempt.taken

\* the list `completed` of the poll that took a file
seen == attempt.seen

\* how the call ended: "none" while it runs
result == attempt.result

\* the completed new files that were in the directory at a poll that raised
\* RateLimitError
stranded == attempt.stranded

\* one call of wait_for_first or wait_for_all, candidate by candidate; the
\* fields are named below
VARIABLE lookup

\* where the call is ("idle": no call is being followed)
rpc == lookup.rpc

\* "first": wait_for_first, "all": wait_for_all
rmode == lookup.rmode

\* per candidate, what the page gives its wait
cands == lookup.cands

\* the index of the candidate the loop is at
ri == lookup.ri

\* the candidates waited for, in order
tried == lookup.tried

\* last_exception
last_exception == lookup.last_exception

\* what the call returned or raised
rres == lookup.rres

\* one call of list_quizzes, row by row; the fields are named below
VARIABLE listing

\* where the call is ("idle": no call is being followed)
lpc == listing.lpc

\* per row of the page, what the row gives the two look-ups made in it
page_rows == listing.page_rows

\* rows: what wait_for_all returned, as indices of page_rows
rows == listing.rows

\* the index in rows of the row the loop is at
li == listing.li

\* the list `quizzes` being built
listed == listing.listed

\* one building of the name of the export of a quiz; the fields are named
\* below
VARIABLE naming

\* where the building is ("idle": none is being followed)
npc == naming.npc

\* quiz_info["title"], quiz_info["date_text"] and what datetime.now() gives
\* when formatted, all as sequences of characters
title == naming.title
date_text == naming.date_text
today == naming.today

\* sanitized_title and target_name
sanitized_title == naming.sanitized_title
target_name == naming.target_name

detailVars == <<attempt, lookup, listing, naming>>

NoFile == [name |-> <<>>, mtime |-> 0, data |-> 0]

\* no call of open_quiz_and_download is being followed
AttemptIdle == attempt = [apc |-> "idle"]

\* last_exception = None
NoException == [by |-> 0, exc |-> "None"]

\* nothing returned or raised yet
NoResult == [kind |-> "none", by |-> 0, value |-> {}, exc |-> "None"]

\* no call of wait_for_first or wait_for_all is being followed
ResolveIdle == lookup = [rpc |-> "idle"]

\* no call of list_quizzes is being followed
ListIdle == listing = [lpc |-> "idle"]

\* no building of a name is being followed
NamingIdle == naming = [npc |-> "idle"]


vars ==
    <<pc, environ, dry_run, session, raised, exit_code, selected, batch,
      rate_limited,
      rounds, processed, waits, written, reported, hist, last, detailVars>>

\* ------------------------------------------------------------------------
\* Record of the attempts (observation only: the program does not read it)
\* ------------------------------------------------------------------------

\* the counters never pass this cap; under Spec they never reach beyond it
AttCap == 1 + max_rounds + MaxPopups

Bump(n) == IF n < AttCap THEN n + 1 ELSE n

\* att: attempts, rl: those that ended RateLimited, pops: those that ended in
\* a popup, rnd: the round of the latest attempt (0 is the initial pass)
NoHist == [att |-> 0, rl |-> 0, pops |-> 0, rnd |-> 0]

\* the record of quiz q after one more attempt with outcome o in round r
Logged(h, o, r) ==
    [att  |-> Bump(h.att),
     rl   |-> IF o = "RateLimited" THEN Bump(h.rl) ELSE h.rl,
     pops |-> IF o = "Popup" THEN Bump(h.pops) ELSE h.pops,
     rnd  |-> r]

RECURSIVE SumPops(_, _)
SumPops(h, n) == IF n = 0 THEN 0 ELSE h[n].pops + SumPops(h, n - 1)

TotalPops == SumPops(hist, MaxQuizzes)

\* ------------------------------------------------------------------------
\* Init: the process has started, nothing has been done
\* ------------------------------------------------------------------------

\* os.getenv gives None for a variable that is not set, and the variable may
\* be set to the empty string
EnvValues == {"None", "", "x"}

\* what main() may find when it starts
Environs == [email : EnvValues, password : EnvValues, mkdir_ok : BOOLEAN]

\* credentials are there and the download directory can be created
GoodEnviron == [email |-> "x", password |-> "x", mkdir_ok |-> TRUE]

Init ==
    /\ pc = "start"
    /\ environ \in Environs
    /\ dry_run \in BOOLEAN
    /\ session = "none"
    /\ raised = "none"
    /\ exit_code = 0
    /\ selected = {}
    /\ batch = <<>>
    /\ rate_limited = <<>>
    /\ rounds = 0
    /\ processed = 0
    /\ waits = <<>>
    /\ written = {}
    /\ reported = <<>>
    /\ hist = [q \in RowIds |-> NoHist]
    /\ last = [quiz |-> 0, outcome |-> "none"]
    /\ AttemptIdle
    /\ ResolveIdle
    /\ ListIdle
    /\ NamingIdle

\* ------------------------------------------------------------------------
\* Startup and the scoped session
\* ------------------------------------------------------------------------

\* the exit status of the process: 0 when main() returns, non-zero (1) when
\* sys.exit(1) is called or an exception leaves main()
ExitCode(exc) == IF exc = "none" THEN 0 ELSE 1

\* faulty variant of QuitOnExit: quit() only when the block is left by a return
QuitOnReturnOnly(drv, exc) == drv = "running" /\ exc = "none"

\* `if driver:` of the finally clause of chrome_driver
QuitOnExit(drv, exc) == drv = "running"

\* the `with` block is left, by a return (exc = "none") or by the exception
\* exc: the finally clause of chrome_driver runs, where `except Exception:
\* pass` swallows a failure of driver.quit(); then main() and the process end
Leave(exc) ==
    /\ IF QuitOnExit(session, exc)
         THEN \E quit_ok \in BOOLEAN :
                session' = IF quit_ok THEN "closed" ELSE "quit_failed"
         ELSE UNCHANGED session
    /\ raised' = exc
    /\ exit_code' = ExitCode(exc)
    /\ pc' = "exited"

\* Python's `not v` for a value of os.getenv
Falsy(v) == v \in {"None", ""}

\* faulty variant of CredentialsMissing: one credential is enough
CredentialsMissingBoth(email, password) == Falsy(email) /\ Falsy(password)

\* if not email or not password
CredentialsMissing(email, password) == Falsy(email) \/ Falsy(password)

\* main(): credentials and download directory, before any session exists;
\* sys.exit(1) on missing credentials, and on the OSError of mkdir
Startup ==
    /\ pc = "start"
    /\ IF CredentialsMissing(environ.email, environ.password)
            \/ ~environ.mkdir_ok
         THEN /\ pc' = "exited"
              /\ raised' = "SystemExit"
              /\ exit_code' = ExitCode("SystemExit")
         ELSE /\ pc' = "acquire"
              /\ UNCHANGED <<raised, exit_code>>
    /\ UNCHANGED <<environ, dry_run, session, selected, batch, rate_limited,
                   rounds, processed, waits, written, reported, hist, last>>
    /\ UNCHANGED detailVars

\* chrome_driver: driver = webdriver.Chrome(...); yield driver
StartDriver ==
    /\ pc = "acquire"
    /\ \E started \in BOOLEAN :
         IF started
           THEN /\ session' = "running"
                /\ pc' = "login"
                /\ UNCHANGED <<raised, exit_code>>
           ELSE Leave("Exception")
    /\ UNCHANGED <<environ, dry_run, selected, batch, rate_limited, rounds,
                   processed, waits, written, reported, hist, last>>
    /\ UNCHANGED detailVars

\* a step of the body of the `with` that either goes on or raises
BodyStep(from, to) ==
    /\ pc = from
    /\ \E ok \in BOOLEAN :
         IF ok
           THEN /\ pc' = to
                /\ UNCHANGED <<session, raised, exit_code>>
           ELSE Leave("Exception")
    /\ UNCHANGED <<environ, dry_run, selected, batch, rate_limited,
                   rounds, processed, waits, written, reported, hist, last>>
    /\ UNCHANGED detailVars

\* login(driver, email, password): a missing field or a dead session raises
Login == BodyStep("login", "navigate")

\* navigate_to_quizzes(driver): the fallback driver.get may raise
Navigate == BodyStep("navigate", "list")

\* quizzes = list_quizzes(driver), the early return, the filters, and the
\* start of the initial pass; n rows are listed
ListQuizzes(maxRows) ==
    /\ pc = "list"
    /\ \/ /\ Leave("Exception")        \* wait_for_all raised: no row located
          /\ UNCHANGED <<selected, batch>>
       \/ \E n \in 0..maxRows, only \in OnlyChoices, m \in MaxChoices :
            LET quizzes == [i \in 1..n |-> i]
                kept == FilterMax(FilterOnly(quizzes, only), m)
            IN  IF quizzes = <<>>
                  THEN /\ Leave("none")        \* "No quizzes found": return
                       /\ UNCHANGED <<selected, batch>>
                  ELSE /\ pc' = "batch"
                       /\ selected' = {kept[i] : i \in 1..Len(kept)}
                       /\ batch' = kept
                       /\ UNCHANGED <<session, raised, exit_code>>
    /\ UNCHANGED <<environ, dry_run, rate_limited, rounds,
                   processed, waits, written, reported, hist, last>>
    /\ UNCHANGED detailVars

\* Ctrl-C while login, navigation, listing or the report is running
Interrupt ==
    /\ pc \in {"login", "navigate", "list", "report"}
    /\ Leave("KeyboardInterrupt")
    /\ UNCHANGED <<environ, dry_run, selected, batch, rate_limited,
                   rounds, processed, waits, written, reported, hist, last>>
    /\ UNCHANGED detailVars

\* ------------------------------------------------------------------------
\* process_batch: one iteration of `while batch`
\* ------------------------------------------------------------------------

\* faulty variant of BatchAfter: the quiz is retried at once, before the queued ones
BatchAfterFront(b, quiz, o) == IF o = "Popup" THEN <<quiz>> \o b ELSE b

\* faulty variant of BatchAfter: a rate-limited quiz is put back as well
BatchAfterAnyRetry(b, quiz, o) ==
    IF o \in {"Popup", "RateLimited"} THEN Append(b, quiz) ELSE b

\* the list `batch` after the handlers ran; b is the list after batch.pop(0)
\*   except PopupError: batch.append(quiz)
BatchAfter(b, quiz, o) == IF o = "Popup" THEN Append(b, quiz) ELSE b

\* faulty variant of HoldAfter: a rate-limited quiz is dropped
HoldAfterNever(held, quiz, o) == held

\* faulty variant of HoldAfter: the append is not confined to the handler
HoldAfterAny(held, quiz, o) == IF o # "Popup" THEN Append(held, quiz) ELSE held

\* the list `rate_limited` after the handlers ran
\*   except RateLimitError: rate_limited.append(quiz)
HoldAfter(held, quiz, o) == IF o = "RateLimited" THEN Append(held, quiz) ELSE held

\* the counter `processed` after the call: processed += 1 follows the call
\* inside the try, so it runs only when the call returns
ProcessedAfter(n, o) == IF o = "Ok" THEN n + 1 ELSE n

\* whether the try statement of process_batch lets the outcome leave the
\* function: PopupError, RateLimitError and `except Exception` catch every
\* Exception, so only a BaseException such as KeyboardInterrupt goes through
Propagates(o) == o # "Ok" /\ ~IsException(o)

\* one iteration of `while batch`, the call having ended with outcome o
Route(o) ==
    /\ pc = "batch"
    /\ batch # <<>>
    /\ o \in PossibleOutcomes(dry_run)
    /\ LET quiz == Head(batch)
       IN  /\ batch' = BatchAfter(Tail(batch), quiz, o)
           /\ rate_limited' = HoldAfter(rate_limited, quiz, o)
           /\ processed' = ProcessedAfter(processed, o)
           /\ written' = IF o = "Ok" /\ ~dry_run THEN written \cup {quiz}
                         ELSE written
           /\ hist' = [hist EXCEPT ![quiz] = Logged(@, o, rounds)]
           /\ last' = [quiz |-> quiz, outcome |-> o]
    /\ IF Propagates(o)
         THEN Leave(o)
         ELSE UNCHANGED <<pc, session, raised, exit_code>>
    /\ UNCHANGED <<environ, dry_run, selected, rounds, waits, reported>>

\* the same, the call being seen through its outcome alone
ProcessTask(o) == Route(o) /\ UNCHANGED detailVars

\* ------------------------------------------------------------------------
\* main(): the retry loop and the final report
\* ------------------------------------------------------------------------

\* faulty variant of wait_time: the same wait before every round
wait_time_flat(r) == backoff_seconds

\* wait_time = backoff_seconds * rounds
wait_time(r) == backoff_seconds * r

\* faulty variant of LoopCond: one round too many
LoopCondOffByOne(held, r, dry) == held # <<>> /\ r <= max_rounds /\ ~dry

\* while rate_limited and rounds < max_rounds and not args.dry_run
LoopCond(held, r, dry) == held # <<>> /\ r < max_rounds /\ ~dry

\* faulty variant of NoProgress: the break is missing
NoProgressNever(r, n) == FALSE

\* if processed_this_round == 0: break   (checked after a retry round only;
\* the initial pass, the one with rounds = 0, is followed by no such test)
NoProgress(r, n) == r > 0 /\ n = 0

\* process_batch returned: the break test, the loop test and, when the loop
\* goes on, the sleep and the start of the next round on a copy of the
\* holding list, which is cleared.  Ctrl-C during the sleep ends the run.
RoundBoundary ==
    /\ pc = "batch"
    /\ batch = <<>>
    /\ IF NoProgress(rounds, processed) \/ ~LoopCond(rate_limited, rounds, dry_run)
         THEN /\ pc' = "report"
              /\ UNCHANGED <<batch, rate_limited, rounds, processed, waits,
                             session, raised, exit_code>>
         ELSE /\ rounds' = rounds + 1
              /\ waits' = Append(waits, wait_time(rounds + 1))
              /\ \/ /\ batch' = rate_limited
                    /\ rate_limited' = <<>>
                    /\ processed' = 0
                    /\ UNCHANGED <<pc, session, raised, exit_code>>
                 \/ /\ Leave("KeyboardInterrupt")
                    /\ UNCHANGED <<batch, rate_limited, processed>>
    /\ UNCHANGED <<environ, dry_run, selected, written, reported, hist, last>>
    /\ UNCHANGED detailVars

\* faulty variant of ReportLines: only the first held quiz is printed
ReportFirstOnly(held) ==
    IF held = <<>> THEN <<>>
    ELSE <<[quiz |-> held[1], line |-> Descriptor(held[1])]>>

\* for quiz in rate_limited: print(f"  - {quiz['title']} ({quiz['date_text']})")
ReportLines(held) ==
    [i \in 1..Len(held) |-> [quiz |-> held[i], line |-> Descriptor(held[i])]]

\* the final report; then main() returns and the `with` block is left
Report ==
    /\ pc = "report"
    /\ reported' = ReportLines(rate_limited)
    /\ Leave("none")
    /\ UNCHANGED <<environ, dry_run, selected, batch, rate_limited, rounds,
                   processed,
                   waits, written, hist, last>>
    /\ UNCHANGED detailVars

\* ------------------------------------------------------------------------
\* open_quiz_and_download, step by step: the download directory
\* ------------------------------------------------------------------------

\* A file name is a sequence of pieces, the last one being its last suffix.
\* f.endswith(".crdownload")
EndsWithCrdownload(name) == name # <<>> /\ name[Len(name)] = ".crdownload"

\* Path.stem and Path.suffix
Stem(name) == SubSeq(name, 1, Len(name) - 1)
Suffix(name) == name[Len(name)]

\* target_name = f"{date_part} - {sanitized_title} - full.csv"
TargetName == <<"2024-05-01 - Quiz - full", ".csv">>

\* f"{target_path.stem} ({suffix}){target_path.suffix}", suffix = int(time.time())
UniqueName(name) == Stem(name) \o <<" (", "now", ")", Suffix(name)>>

\* the names the browser gives download k: while it is written and once it
\* is complete
DoneName(k) == <<"export-", ToString(k), ".csv">>
PartName(k) == Append(DoneName(k), ".crdownload")

\* files that may be in the directory before the run: one that has nothing
\* to do with the quiz and the export of an earlier run under the same name
OldFile == [name |-> <<"notes", ".txt">>, mtime |-> 0, data |-> 0]
EarlierExport == [name |-> TargetName, mtime |-> 0, data |-> 0]

\* os.listdir(download_dir)
ListDir(fs) == {f.name : f \in fs}

Exists(fs, name) == name \in ListDir(fs)

\* the systems the program runs on
Platforms == {"posix", "windows"}

\* Path.rename(target): on POSIX the destination is replaced silently, on
\* Windows the call raises FileExistsError when the destination exists
RenameRaises(os, fs, dst) == os = "windows" /\ Exists(fs, dst)

\* the directory after src has been renamed to dst (the call did not raise)
Renamed(fs, src, dst) ==
    {f \in fs : f.name # src.name /\ f.name # dst}
        \cup {[name |-> dst, mtime |-> src.mtime, data |-> src.data]}

\* new_files = after_files - before_files
NewFiles(fs, before) == ListDir(fs) \ before

\* faulty variant of CompletedFiles: the suffix is not looked at
CompletedFilesAny(names) == names

\* completed = [f for f in new_files if not f.endswith(".crdownload")]
CompletedFiles(names) == {n \in names : ~EndsWithCrdownload(n)}

\* faulty variant of Latest: the oldest file is taken
LatestOldest(fs, names) ==
    {f \in fs : f.name \in names /\
                \A g \in fs : g.name \in names => g.mtime >= f.mtime}

\* max(completed, key=st_mtime): the files max may return; among files of
\* equal st_mtime it returns the first of a list built from a set, whose
\* order is not fixed
Latest(fs, names) ==
    {f \in fs : f.name \in names /\
                \A g \in fs : g.name \in names => g.mtime <= f.mtime}

\* ------------------------------------------------------------------------
\* open_quiz_and_download, step by step: what happens around the call
\* ------------------------------------------------------------------------

schedVars ==
    <<pc, environ, dry_run, session, raised, exit_code, selected, batch,
      rate_limited,
      rounds, processed, waits, written, reported, hist, last>>

\* the download k begins: the browser writes DoneName(k) + ".crdownload".
\* Downloads begin after a click of the export link, in the order of k, and
\* one click starts one download at most: the download of the click of an
\* earlier call may begin during a later call.
DownloadStarts(k) ==
    /\ apc \in {"popupcheck", "ratecheck", "poll"}
    /\ dl[k] = "none"
    /\ \A j \in 1..(k - 1) : dl[j] # "none"
    /\ k <= hist[Head(batch)].att + 1
    /\ attempt' =
          [attempt EXCEPT
              !.dl = [dl EXCEPT ![k] = "partial"],
              !.files = files \cup
                  {[name |-> PartName(k), mtime |-> clock, data |-> k]}]
    /\ UNCHANGED <<schedVars, lookup, listing, naming>>

\* the download k ends (seen while a call runs): the browser renames the
\* partial file, which gets a later modification time than every other file
DownloadCompletes(k) ==
    /\ apc \notin {"idle", "returned", "raised"}
    /\ dl[k] = "partial"
    /\ attempt' =
          [attempt EXCEPT
              !.clock = clock + 1,
              !.dl = [dl EXCEPT ![k] = "done"],
              !.files = {f \in files : f.name # PartName(k)} \cup
                  {[name |-> DoneName(k), mtime |-> clock + 1, data |-> k]}]
    /\ UNCHANGED <<schedVars, lookup, listing, naming>>

\* the site starts to answer "too many attempts" to the click
RateLimitShows ==
    /\ apc \in {"popupcheck", "ratecheck", "poll"}
    /\ ~rate_phrase
    /\ attempt' = [attempt EXCEPT !.rate_phrase = TRUE]
    /\ UNCHANGED <<schedVars, lookup, listing, naming>>

\* ------------------------------------------------------------------------
\* open_quiz_and_download, step by step: the call
\* ------------------------------------------------------------------------

\* a call begins for the quiz at the head of the batch
Begin ==
    /\ apc = "idle"
    /\ pc = "batch"
    /\ batch # <<>>
    /\ hist[Head(batch)].att < MaxAttempts
    /\ attempt' = [attempt EXCEPT !.apc = "open", !.files0 = files]
    /\ UNCHANGED <<schedVars, lookup, listing, naming>>

\* the call a, ended by raising exc
Raise(a, exc) == [a EXCEPT !.result = exc, !.apc = "raised"]

\* download_dir.mkdir(parents=True, exist_ok=True); driver.get(href)
Open ==
    /\ apc = "open"
    /\ \/ attempt' = [attempt EXCEPT !.apc = "button", !.rate_phrase = FALSE]
       \/ attempt' = Raise(attempt, "DriverError")
    /\ UNCHANGED <<schedVars, lookup, listing, naming>>

\* the CSV button is looked for and clicked; `except Exception: pass`
\* swallows whatever goes wrong
Button ==
    /\ apc = "button"
    /\ attempt' = [attempt EXCEPT !.apc = "link"]
    /\ UNCHANGED <<schedVars, lookup, listing, naming>>

\* download_link = wait_for_first(driver, CSV_MENU_FULL_STUDENT_SELECTORS)
Link ==
    /\ apc = "link"
    /\ \/ attempt' = [attempt EXCEPT !.apc = "name"]
       \/ attempt' = Raise(attempt, "NotFound")
       \/ attempt' = Raise(attempt, "DriverError")
    /\ UNCHANGED <<schedVars, lookup, listing, naming>>

\* if dry_run: print(f"Would download: {target_name}"); return target_path
DryReturn(dry) == dry

\* faulty variant of Following: the link is clicked before the snapshots
FollowingClickFirst(p) ==
    CASE p = "name"        -> "click"
      [] p = "click"       -> "snapfiles"
      [] p = "snapfiles"   -> "snaphandles"
      [] p = "snaphandles" -> "popupcheck"

\* the order of the statements from the snapshots to the popup check:
\*   before_files = set(os.listdir(download_dir))
\*   original_handles = driver.window_handles
\*   download_link.click()
\*   current_handles = driver.window_handles ...
Following(p) ==
    CASE p = "name"        -> "snapfiles"
      [] p = "snapfiles"   -> "snaphandles"
      [] p = "snaphandles" -> "click"
      [] p = "click"       -> "popupcheck"

\* the file name is prepared; a dry run prints it and returns
Name ==
    /\ apc = "name"
    /\ attempt' =
          IF DryReturn(dry_run)
            THEN [attempt EXCEPT !.target_path = TargetName,
                                 !.announced = TargetName,
                                 !.result = "Ok",
                                 !.apc = "returned"]
            ELSE [attempt EXCEPT !.target_path = TargetName,
                                 !.apc = Following("name")]
    /\ UNCHANGED <<schedVars, lookup, listing, naming>>

\* before_files = set(os.listdir(download_dir))
SnapFiles ==
    /\ apc = "snapfiles"
    /\ attempt' = [attempt EXCEPT !.before_files = ListDir(files),
                                  !.snapped = snapped \cup {"files"},
                                  !.apc = Following("snapfiles")]
    /\ UNCHANGED <<schedVars, lookup, listing, naming>>

\* original_handles = driver.window_handles
SnapHandles ==
    /\ apc = "snaphandles"
    /\ attempt' = [attempt EXCEPT !.original_handles = handles,
                                  !.snapped = snapped \cup {"handles"},
                                  !.apc = Following("snaphandles")]
    /\ UNCHANGED <<schedVars, lookup, listing, naming>>

\* the largest window handle in use
RECURSIVE MaxHandle(_)
MaxHandle(hs) ==
    IF hs = <<>> THEN 0
    ELSE LET m == MaxHandle(Tail(hs))
         IN  IF Head(hs) > m THEN Head(hs) ELSE m

\* download_link.click(); time.sleep(0.5): the click may open n new
\* windows, or fail (the element is stale or covered)
Click ==
    /\ apc = "click"
    /\ \/ \E n \in 0..MaxNewWindows :
            attempt' =
               [attempt EXCEPT
                   !.clicked = TRUE,
                   !.handles = handles \o
                       [i \in 1..n |-> MaxHandle(handles) + i],
                   !.apc = Following("click")]
       \/ attempt' = Raise(attempt, "DriverError")
    /\ UNCHANGED <<schedVars, lookup, listing, naming>>

\* new_handles = [h for h in current_handles if h not in original_handles]
NewHandles(current, original) ==
    SelectSeq(current, LAMBDA h : h \notin Range(original))

\* driver.window_handles after driver.close() on the window h
Closed(hs, h) == SelectSeq(hs, LAMBDA x : x # h)

\* the popup check: the first new window is closed, the driver goes back to
\* original_handles[0] and PopupError is raised
PopupCheck ==
    /\ apc = "popupcheck"
    /\ LET new_handles == NewHandles(handles, original_handles)
       IN  attempt' =
             IF new_handles # <<>>
               THEN Raise([attempt EXCEPT
                              !.handles = Closed(handles, new_handles[1]),
                              !.focus = original_handles[1]],
                          "Popup")
               ELSE [attempt EXCEPT !.apc = "ratecheck"]
    /\ UNCHANGED <<schedVars, lookup, listing, naming>>

\* if page_has_rate_limit(driver): raise RateLimitError; else elapsed = 0
RateCheck ==
    /\ apc = "ratecheck"
    /\ attempt' =
          IF rate_phrase
            THEN Raise(attempt, "RateLimited")
            ELSE [attempt EXCEPT !.apc = "poll", !.elapsed = 0]
    /\ UNCHANGED <<schedVars, lookup, listing, naming>>

\* faulty variant of PollCond: one poll too many
PollCondOffByOne(e) == e <= poll_limit

\* while elapsed < 60
PollCond(e) == e < poll_limit

\* faulty variant of RateLimitFirst: the directory is examined first
RateLimitAfterDirectory(phrase, completed) == phrase /\ completed = {}

\* if page_has_rate_limit(driver): raise RateLimitError, the statement
\* before current_files = set(os.listdir(download_dir))
RateLimitFirst(phrase, completed) == phrase

\* one iteration of the wait: sleep, the rate-limit check, the listing of
\* the directory and, when a completed new file is there, its renaming
Poll ==
    /\ apc = "poll"
    /\ PollCond(elapsed)
    /\ LET slept == [attempt EXCEPT !.elapsed = elapsed + poll_interval]
           completed == CompletedFiles(NewFiles(files, before_files))
           left == {f \in files : f.name \in completed}
       IN  IF RateLimitFirst(rate_phrase, completed)
             THEN attempt' =
                     Raise([slept EXCEPT !.stranded = stranded \cup left],
                           "RateLimited")
           ELSE IF completed = {}
             THEN attempt' = slept
           ELSE \E latest \in Latest(files, completed), os \in Platforms :
                  LET dst == IF RenameRaises(os, files, target_path)
                               THEN UniqueName(target_path)
                               ELSE target_path
                  IN  attempt' =
                         [slept EXCEPT
                             !.taken = latest,
                             !.seen = {f \in files : f.name \in completed},
                             !.target_path = dst,
                             !.files = Renamed(files, latest, dst),
                             !.result = "Ok",
                             !.apc = "returned"]
    /\ UNCHANGED <<schedVars, lookup, listing, naming>>

\* raise TimeoutException("Timed out waiting for file to download.")
PollTimeout ==
    /\ apc = "poll"
    /\ ~PollCond(elapsed)
    /\ attempt' = Raise(attempt, "Timeout")
    /\ UNCHANGED <<schedVars, lookup, listing, naming>>

\* the locals of a call that has not begun, in the world w
NoCall(w) ==
    [w EXCEPT !.apc = "idle",
              !.before_files = {},
              !.original_handles = <<>>,
              !.snapped = {},
              !.clicked = FALSE,
              !.elapsed = 0,
              !.target_path = <<>>,
              !.announced = <<>>,
              !.taken = NoFile,
              !.seen = {},
              !.result = "none"]

\* the call is over: its locals are gone and process_batch handles what it
\* returned or raised
Deliver ==
    /\ apc \in {"returned", "raised"}
    /\ Route(result)
    /\ attempt' = NoCall(attempt)
    /\ UNCHANGED <<lookup, listing, naming>>

\* the browser has one window and no download; the directory holds fs
World(fs) ==
    [apc |-> "idle", files |-> fs, files0 |-> fs,
     dl |-> [k \in 1..MaxDownloads |-> "none"], clock |-> 0,
     handles |-> <<1>>, focus |-> 1, rate_phrase |-> FALSE,
     before_files |-> {}, original_handles |-> <<>>, snapped |-> {},
     clicked |-> FALSE, elapsed |-> 0, target_path |-> <<>>,
     announced |-> <<>>, taken |-> NoFile, seen |-> {}, result |-> "none",
     stranded |-> {}]

\* main() has listed one quiz and starts the initial pass; the directory
\* may hold files of an earlier run
AttemptInit ==
    /\ pc = "batch"
    /\ environ = GoodEnviron
    /\ dry_run \in BOOLEAN
    /\ session = "running"
    /\ raised = "none"
    /\ exit_code = 0
    /\ selected = {1}
    /\ batch = <<1>>
    /\ rate_limited = <<>>
    /\ rounds = 0
    /\ processed = 0
    /\ waits = <<>>
    /\ written = {}
    /\ reported = <<>>
    /\ hist = [q \in RowIds |-> NoHist]
    /\ last = [quiz |-> 0, outcome |-> "none"]
    /\ attempt \in {World(fs) : fs \in {{OldFile}, {OldFile, EarlierExport}}}
    /\ ResolveIdle
    /\ ListIdle
    /\ NamingIdle

AttemptNext ==
    \/ Begin
    \/ Open
    \/ Button
    \/ Link
    \/ Name
    \/ SnapFiles
    \/ SnapHandles
    \/ Click
    \/ PopupCheck
    \/ RateCheck
    \/ Poll
    \/ PollTimeout
    \/ Deliver
    \/ \E k \in 1..MaxDownloads : DownloadStarts(k)
    \/ \E k \in 1..MaxDownloads : DownloadCompletes(k)
    \/ RateLimitShows
    \/ RoundBoundary
    \/ Report

AttemptSpec == AttemptInit /\ [][AttemptNext]_vars

\* ------------------------------------------------------------------------
\* wait_for_first and wait_for_all, candidate by candidate
\* ------------------------------------------------------------------------

\* the elements of the page, in document order
Elements == 1..MaxElems

\* what the page gives the wait of one candidate: the wait raises an
\* exception that is no timeout (err), or the selector matches the elements
\* elems within the timeout (none: the wait times out)
Behaviours ==
    {[err |-> TRUE, elems |-> {}]}
        \cup {[err |-> FALSE, elems |-> s] : s \in SUBSET Elements}

\* the lists `candidates` the functions are called with
CandLists == UNION {[1..n -> Behaviours] : n \in 0..MaxCands}

\* WebDriverWait(driver, timeout).until(...) returns (a truthy value)
Satisfiable(c) == ~c.err /\ c.elems # {}

\* the exception the wait of a candidate that is not satisfiable raises
ExcOf(c) == IF c.err THEN "WebDriverException" ELSE "TimeoutException"

\* presence_of_element_located gives the first match in document order,
\* presence_of_all_elements_located gives them all
Found(mode, c) ==
    IF mode = "first"
      THEN {CHOOSE e \in c.elems : \A x \in c.elems : e <= x}
      ELSE c.elems

\* a call begins: last_exception = None, the loop is at the first candidate
ResolveInit ==
    /\ lookup \in
          {[rpc |-> "loop", rmode |-> m, cands |-> cs, ri |-> 1,
            tried |-> <<>>, last_exception |-> NoException,
            rres |-> NoResult] : m \in {"first", "all"}, cs \in CandLists}
    /\ pc = "start"
    /\ environ = GoodEnviron
    /\ dry_run = FALSE
    /\ session = "none"
    /\ raised = "none"
    /\ exit_code = 0
    /\ selected = {}
    /\ batch = <<>>
    /\ rate_limited = <<>>
    /\ rounds = 0
    /\ processed = 0
    /\ waits = <<>>
    /\ written = {}
    /\ reported = <<>>
    /\ hist = [q \in RowIds |-> NoHist]
    /\ last = [quiz |-> 0, outcome |-> "none"]
    /\ AttemptIdle
    /\ ListIdle
    /\ NamingIdle

\* one iteration of `for by, sel in candidates`: the wait returns and so
\* does the function, or the wait raises, the exception is kept in
\* last_exception and the loop goes on
TryCandidate ==
    /\ rpc = "loop"
    /\ ri <= Len(cands)
    /\ LET waited == [lookup EXCEPT !.tried = Append(tried, ri)]
       IN  lookup' =
             IF Satisfiable(cands[ri])
               THEN [waited EXCEPT
                        !.rres = [kind |-> "returned", by |-> ri,
                                  value |-> Found(rmode, cands[ri]),
                                  exc |-> "None"],
                        !.rpc = "returned"]
               ELSE [waited EXCEPT
                        !.last_exception =
                            [by |-> ri, exc |-> ExcOf(cands[ri])],
                        !.ri = ri + 1]
    /\ UNCHANGED <<schedVars, attempt, listing, naming>>

\* the loop is over: `if last_exception: raise last_exception`, else
\* raise TimeoutException("None of the selectors matched: ...")
Exhausted ==
    /\ rpc = "loop"
    /\ ri > Len(cands)
    /\ lookup' =
          [lookup EXCEPT
              !.rres = IF last_exception # NoException
                         THEN [kind |-> "raised", by |-> last_exception.by,
                               value |-> {}, exc |-> last_exception.exc]
                         ELSE [kind |-> "raised", by |-> 0,
                               value |-> {}, exc |-> "TimeoutException"],
              !.rpc = "raised"]
    /\ UNCHANGED <<schedVars, attempt, listing, naming>>

\* the candidates the raised exception r tells about: the exception kept in
\* last_exception comes from the wait of one candidate; the TimeoutException
\* of the last line prints the whole list `candidates`
Listed(r) == IF r.by = 0 THEN 1..Len(cands) ELSE {r.by}

ResolveNext == TryCandidate \/ Exhausted

ResolveSpec == ResolveInit /\ [][ResolveNext]_vars

\* ------------------------------------------------------------------------
\* list_quizzes, row by row
\* ------------------------------------------------------------------------

\* the characters str.strip() and \s take for whitespace, among those used
WhiteSpace == {" ", "\t"}

RECURSIVE LStrip(_)
LStrip(s) ==
    IF s # <<>> /\ Head(s) \in WhiteSpace THEN LStrip(Tail(s)) ELSE s

RECURSIVE RStrip(_)
RStrip(s) ==
    IF s # <<>> /\ s[Len(s)] \in WhiteSpace
      THEN RStrip(SubSeq(s, 1, Len(s) - 1))
      ELSE s

\* str.strip()
Strip(s) == RStrip(LStrip(s))

\* "Untitled Quiz"
Untitled == <<"U", "n", "t", "i", "t", "l", "e", "d", " ", "Q", "u", "i", "z">>

\* what a look-up inside a row gives: the element with its text, or an
\* exception (no candidate matched in time, or the driver failed in
\* wait_for_first, in .text or in get_attribute)
NotThere == [found |-> FALSE, text |-> <<>>]

\* the rows of the quizzes page: each with what the look-up of its title
\* link and the look-up of its date cell give
PageRows ==
    LET LinkTexts == {<<"Q">>, <<" ", "Q", " ">>, <<" ">>}
        DateTexts == {<<"5">>, <<" ">>}
        Looks(texts) ==
            {NotThere} \cup {[found |-> TRUE, text |-> t] : t \in texts}
    IN  [title_link : Looks(LinkTexts), date_cell : Looks(DateTexts)]

\* the pages, their rows in the order of the document
Pages == UNION {[1..n -> PageRows] : n \in 0..MaxRows}

\* title_text = title_link.text.strip() or "Untitled Quiz"
TitleText(t) == IF Strip(t) = <<>> THEN Untitled ELSE Strip(t)

\* date_text = "", replaced by date_cell.text.strip() when the cell is found;
\* `except Exception: pass` otherwise
DateText(look) == IF look.found THEN Strip(look.text) ELSE <<>>

\* faulty variant of Skipped: a row without a date is skipped as well
SkippedUndated(row) == ~row.title_link.found \/ ~row.date_cell.found

\* `except Exception: continue` around the look-up of the title link
Skipped(row) == ~row.title_link.found

\* the dictionary appended for the row r of the page; the href stands for
\* the row it was read from
QuizOf(r, row) ==
    [title |-> TitleText(row.title_link.text),
     href |-> r,
     date_text |-> DateText(row.date_cell)]

\* list_quizzes is called on a page
ListInit ==
    /\ listing \in
          {[lpc |-> "rows", page_rows |-> p, rows |-> <<>>, li |-> 1,
            listed |-> <<>>] : p \in Pages}
    /\ pc = "start"
    /\ environ = GoodEnviron
    /\ dry_run = FALSE
    /\ session = "none"
    /\ raised = "none"
    /\ exit_code = 0
    /\ selected = {}
    /\ batch = <<>>
    /\ rate_limited = <<>>
    /\ rounds = 0
    /\ processed = 0
    /\ waits = <<>>
    /\ written = {}
    /\ reported = <<>>
    /\ hist = [q \in RowIds |-> NoHist]
    /\ last = [quiz |-> 0, outcome |-> "none"]
    /\ AttemptIdle
    /\ ResolveIdle
    /\ NamingIdle

\* rows = wait_for_all(driver, QUIZ_LIST_SELECTORS["rows"], ...): the rows of
\* the page, or an exception when there is none
LocateRows ==
    /\ lpc = "rows"
    /\ listing' =
          IF page_rows = <<>>
            THEN [listing EXCEPT !.lpc = "raised"]
            ELSE [listing EXCEPT !.rows = [i \in 1..Len(page_rows) |-> i],
                                 !.lpc = "loop"]
    /\ UNCHANGED <<schedVars, attempt, lookup, naming>>

\* one iteration of `for row in rows`
ListRow ==
    /\ lpc = "loop"
    /\ li <= Len(rows)
    /\ LET r == rows[li]
           row == page_rows[r]
       IN  listing' =
              IF Skipped(row)
                THEN [listing EXCEPT !.li = li + 1]
                ELSE [listing EXCEPT !.li = li + 1,
                                     !.listed = Append(listed, QuizOf(r, row))]
    /\ UNCHANGED <<schedVars, attempt, lookup, naming>>

\* return quizzes
ListReturn ==
    /\ lpc = "loop"
    /\ li > Len(rows)
    /\ listing' = [listing EXCEPT !.lpc = "returned"]
    /\ UNCHANGED <<schedVars, attempt, lookup, naming>>

ListNext == LocateRows \/ ListRow \/ ListReturn

ListSpec == ListInit /\ [][ListNext]_vars

\* ------------------------------------------------------------------------
\* sanitize_filename and the name of the export
\* ------------------------------------------------------------------------

\* sanitized[:180]
name_limit == 180

\* quiz_info["date_text"][:10]
date_chars == 10

\* the character class [\\/*?\"<>|:]
Illegal == {"\\", "/", "*", "?", "\"", "<", ">", "|", ":"}

\* re.sub(r"[\\/*?\"<>|:]", " ", name)
Spaced(s) == [i \in 1..Len(s) |-> IF s[i] \in Illegal THEN " " ELSE s[i]]

\* re.sub(r"\s+", " ", sanitized): every run of whitespace becomes one
\* space, that is, a whitespace character is kept, as a space, when it is the
\* first of its run, and dropped otherwise
Collapsed(s) ==
    LET kept == SelectSeq([i \in 1..Len(s) |-> i],
                          LAMBDA i : \/ s[i] \notin WhiteSpace
                                     \/ i = 1
                                     \/ s[i - 1] \notin WhiteSpace)
    IN  [k \in 1..Len(kept) |->
            IF s[kept[k]] \in WhiteSpace THEN " " ELSE s[kept[k]]]

\* s[:n]
Take(s, n) == SubSeq(s, 1, IF Len(s) < n THEN Len(s) ELSE n)

sanitize_filename(name) == Take(Strip(Collapsed(Spaced(name))), name_limit)

\* date_part = quiz_info["date_text"][:10] if quiz_info["date_text"]
\*             else datetime.now().strftime("%Y-%m-%d")
DatePart(d, now) == IF d # <<>> THEN Take(d, date_chars) ELSE now

\* the constant parts of f"{date_part} - {sanitized_title} - full.csv"
Dash == <<" ", "-", " ">>
FullCsv == <<"f", "u", "l", "l", ".", "c", "s", "v">>

\* "Quiz: Unit 3/Review"
ExampleTitle ==
    <<"Q", "u", "i", "z", ":", " ", "U", "n", "i", "t", " ", "3", "/",
      "R", "e", "v", "i", "e", "w">>

\* "2024-05-01T10:00"
ExampleDate ==
    <<"2", "0", "2", "4", "-", "0", "5", "-", "0", "1", "T", "1", "0", ":",
      "0", "0">>

\* the titles: list_quizzes gives titles that are stripped and not empty;
\* the long ones, a filling followed by a listed title, pass name_limit
Titles ==
    LET TitleChars == {"a", " ", "\t", ":", "/"}
        ListedTitles ==
            {s \in UNION {[1..n -> TitleChars] : n \in 1..MaxTitleLen} :
                Strip(s) = s}
        Filling == [i \in 1..(name_limit - 2) |-> "a"]
        LongTitles ==
            {Filling \o s : s \in {t \in ListedTitles : Len(t) > 2}}
    IN  ListedTitles \cup LongTitles \cup {ExampleTitle, Untitled}

\* the date texts: none, a time stamp, a text shorter than date_chars
DateHints == {<<>>, ExampleDate, <<"M", "a", "y", " ", "1">>}

\* datetime.now().strftime("%Y-%m-%d")
Todays == {<<"2", "0", "2", "6", "-", "1", "1", "-", "0", "6">>}

\* open_quiz_and_download has located the export link of a listed quiz
NamingInit ==
    /\ naming \in
          {[npc |-> "sanitize", title |-> t, date_text |-> d, today |-> n,
            sanitized_title |-> <<>>, target_name |-> <<>>] :
              t \in Titles, d \in DateHints, n \in Todays}
    /\ pc = "start"
    /\ environ = GoodEnviron
    /\ dry_run = FALSE
    /\ session = "none"
    /\ raised = "none"
    /\ exit_code = 0
    /\ selected = {}
    /\ batch = <<>>
    /\ rate_limited = <<>>
    /\ rounds = 0
    /\ processed = 0
    /\ waits = <<>>
    /\ written = {}
    /\ reported = <<>>
    /\ hist = [q \in RowIds |-> NoHist]
    /\ last = [quiz |-> 0, outcome |-> "none"]
    /\ AttemptIdle
    /\ ResolveIdle
    /\ ListIdle

\* sanitized_title = sanitize_filename(quiz_info["title"])
Sanitize ==
    /\ npc = "sanitize"
    /\ naming' = [naming EXCEPT !.sanitized_title = sanitize_filename(title),
                                !.npc = "build"]
    /\ UNCHANGED <<schedVars, attempt, lookup, listing>>

\* target_name = f"{date_part} - {sanitized_title} - full.csv"
BuildName ==
    /\ npc = "build"
    /\ naming' =
          [naming EXCEPT
              !.target_name = DatePart(date_text, today) \o Dash \o
                              sanitized_title \o Dash \o FullCsv,
              !.npc = "named"]
    /\ UNCHANGED <<schedVars, attempt, lookup, listing>>

NamingNext == Sanitize \/ BuildName

NamingSpec == NamingInit /\ [][NamingNext]_vars

\* ------------------------------------------------------------------------
\* Specifications
\* ------------------------------------------------------------------------

\* the steps of the program itself
Program(maxRows) ==
    \/ Startup
    \/ StartDriver
    \/ Login
    \/ Navigate
    \/ ListQuizzes(maxRows)
    \/ RoundBoundary
    \/ Report

\* every run in which at most MaxPopups attempts end in a popup
Next ==
    \/ Program(MaxQuizzes)
    \/ \E o \in Outcomes :
         /\ o = "Popup" => TotalPops < MaxPopups
         /\ ProcessTask(o)
    \/ Interrupt

Spec == Init /\ [][Next]_vars

\* every run, popups without a cap; the program always takes its next step
LiveStep ==
    \/ Program(MaxLiveQuizzes)
    \/ \E o \in Outcomes : ProcessTask(o)

LiveNext == LiveStep \/ Interrupt

LiveSpec == Init /\ [][LiveNext]_vars /\ WF_vars(LiveStep)

\* ------------------------------------------------------------------------
\* Vocabulary of the properties
\* ------------------------------------------------------------------------

\* the quizzes the final report lists
ReportedQuizzes == {reported[i].quiz : i \in 1..Len(reported)}

\* main() returned (no exception left it) after the passes over the quizzes
Completed == pc = "exited" /\ raised = "none"

\* this step is an attempt on quiz q (under Spec the counters do not saturate)
Attempted(q) == hist'[q].att = hist[q].att + 1

\* quiz q was attempted and every attempt on it ended RateLimited
AlwaysRateLimited(q) == hist[q].att >= 1 /\ hist[q].rl = hist[q].att

\* ------------------------------------------------------------------------
\* C1
\* ------------------------------------------------------------------------

\* C1: when a non-dry run has completed, every selected quiz is in exactly
\* one of the two sets: artifact written, listed in the final report.
C1_NoSilentLoss ==
    (Completed /\ ~dry_run) =>
        \A q \in selected : (q \in written) # (q \in ReportedQuizzes)

\* ------------------------------------------------------------------------
\* C2
\* ------------------------------------------------------------------------

\* C2 as stated: a quiz whose every attempt was RateLimited has seen exactly
\* max_rounds retry rounds, after waits of 30, 60 and 90 seconds, and is in
\* the final report.
C2_ExactlyMaxRounds ==
    \A q \in selected :
        (Completed /\ AlwaysRateLimited(q)) =>
            /\ rounds = max_rounds
            /\ waits = <<backoff_seconds * 1, backoff_seconds * 2, backoff_seconds * 3>>
            /\ q \in ReportedQuizzes

\* C2 as amended: a quiz whose every attempt was RateLimited has seen at
\* least one and at most max_rounds retry rounds, fewer than max_rounds only
\* when the last round had no success; round r was preceded by a wait of
\* backoff_seconds * r; the quiz was attempted once in the initial pass and
\* once in every round; and it is in the final report.
C2_UpToMaxRounds ==
    \A q \in selected :
        (Completed /\ AlwaysRateLimited(q)) =>
            /\ rounds \in 1..max_rounds
            /\ rounds < max_rounds => processed = 0
            /\ waits = [r \in 1..rounds |-> backoff_seconds * r]
            /\ hist[q].att = rounds + 1
            /\ q \in ReportedQuizzes

\* a completed run with a quiz that was RateLimited in the initial pass and
\* in each of the max_rounds rounds
C2_Witness ==
    \E q \in selected :
        Completed /\ AlwaysRateLimited(q) /\ rounds = max_rounds

\* ------------------------------------------------------------------------
\* C3
\* ------------------------------------------------------------------------

\* C3: an attempt of a non-dry run that ends in Timeout or NotFound puts the
\* quiz in the holding list (and not back in the running batch), so that the
\* next round retries it.
C3_FailureHeldForNextRound ==
    [][\A q \in RowIds :
         (Attempted(q) /\ ~dry_run /\ last'.outcome \in {"Timeout", "NotFound"}) =>
             /\ q \in Range(rate_limited')
             /\ q \notin Range(batch')]_vars

\* ------------------------------------------------------------------------
\* C4
\* ------------------------------------------------------------------------

\* C4: an attempt that ends in a popup puts the quiz, which was the head of
\* the batch, behind everything that was still queued, in the same round and
\* without touching the holding list; a success on the second attempt of a
\* quiz whose first attempt was a popup happens in the round of the first
\* attempt and is counted by that round; and the quiz is attempted no more.
C4_PopupRequeuedSameRound ==
    /\ [][\A q \in RowIds :
            (Attempted(q) /\ last'.outcome = "Popup") =>
                /\ Head(batch) = q
                /\ batch' = Append(Tail(batch), q)
                /\ rate_limited' = rate_limited
                /\ processed' = processed
                /\ rounds' = rounds
                /\ pc' = "batch"]_vars
    /\ [][\A q \in RowIds :
            (Attempted(q) /\ last'.outcome = "Ok"
                 /\ hist[q].att = 1 /\ hist[q].pops = 1) =>
                /\ hist[q].rnd = rounds
                /\ hist'[q].rnd = rounds
                /\ processed' = processed + 1
                /\ q \notin Range(batch')
                /\ q \notin Range(rate_limited')]_vars
    /\ [][\A q \in RowIds :
            (q \in written /\ hist[q].att = 2 /\ hist[q].pops = 1) =>
                hist'[q] = hist[q]]_vars

\* a quiz, not the only one of its round, that had a popup and then a success,
\* attempted twice
C4_Witness ==
    \E q \in selected :
        /\ q \in written
        /\ hist[q].att = 2
        /\ hist[q].pops = 1
        /\ Cardinality(selected) >= 3
        /\ q # last.quiz

\* ------------------------------------------------------------------------
\* C5
\* ------------------------------------------------------------------------

\* C5: an attempt that ends in a DriverError ends the run: the error leaves
\* main() and no further quiz is processed.
C5_DriverErrorEndsRun ==
    [][\A q \in RowIds :
         (Attempted(q) /\ last'.outcome = "DriverError") =>
             (pc' = "exited" /\ raised' # "none")]_vars

\* ------------------------------------------------------------------------
\* C6
\* ------------------------------------------------------------------------

\* a retry round has worked through its whole batch without one success
ZeroSuccessRoundDone == pc = "batch" /\ batch = <<>> /\ rounds >= 1 /\ processed = 0

\* C6: when a retry round ends with zero successes the loop is left, and
\* from then on no round starts and no wait happens, whatever the budget and
\* the holding list are.
C6_ZeroSuccessRoundEndsLoop ==
    /\ [][ZeroSuccessRoundDone => pc' = "report"]_vars
    /\ [][(ZeroSuccessRoundDone \/ pc \in {"report", "exited"}) =>
            /\ rounds' = rounds
            /\ waits' = waits
            /\ batch' = batch
            /\ pc' \in {"report", "exited"}]_vars

\* a round with zero successes ended, with budget left and quizzes held
C6_Witness ==
    /\ ZeroSuccessRoundDone
    /\ rounds < max_rounds
    /\ rate_limited # <<>>

\* ------------------------------------------------------------------------
\* C7
\* ------------------------------------------------------------------------

\* C7: the round counter stays in 0..max_rounds and counts the waits; it
\* changes only by one, at a round boundary (the batch is worked off) with a
\* non-empty holding list, after a wait of backoff_seconds times the new
\* round number; the new round's batch is the holding list as it was, and
\* the holding list is emptied.
C7_RoundsNumberedAndBounded ==
    /\ [](rounds \in 0..max_rounds /\ Len(waits) = rounds)
    /\ [][rounds' # rounds =>
            /\ rounds' = rounds + 1
            /\ pc = "batch"
            /\ batch = <<>>
            /\ rate_limited # <<>>
            /\ waits' = Append(waits, backoff_seconds * rounds')
            /\ pc' = "batch" =>
                 (batch' = rate_limited /\ rate_limited' = <<>>)]_vars

\* the budget is used up at a boundary where the last round made progress
\* and quizzes are still held
C7_Witness ==
    /\ pc = "batch"
    /\ batch = <<>>
    /\ rounds = max_rounds
    /\ processed > 0
    /\ rate_limited # <<>>

\* ------------------------------------------------------------------------
\* C8
\* ------------------------------------------------------------------------

\* C8: when main() has returned, the final report lists exactly the quizzes
\* of the holding list, in order, each by its title and date hint, and the
\* exit status is 0.
C8_HeldQuizzesReported ==
    Completed =>
        /\ Len(reported) = Len(rate_limited)
        /\ \A i \in 1..Len(rate_limited) :
             /\ reported[i].quiz = rate_limited[i]
             /\ reported[i].line = <<RowTitle(rate_limited[i]), RowDate(rate_limited[i])>>
        /\ exit_code = 0

\* a completed run whose report lists two quizzes, after the budget ran out
C8_Witness ==
    /\ Completed
    /\ Len(reported) >= 2
    /\ rounds = max_rounds

\* ------------------------------------------------------------------------
\* C9
\* ------------------------------------------------------------------------

\* C9: every run ends.
C9_RunTerminates == <>(pc = "exited")

\* ------------------------------------------------------------------------
\* C10
\* ------------------------------------------------------------------------

\* C10: no ended run has a running session: a session that was started has
\* had quit() called on it, on every way out; and a quit() that failed
\* changes neither the exception that leaves main() nor the exit status.
C10_SessionTornDown ==
    pc = "exited" =>
        /\ session \in {"none", "closed", "quit_failed"}
        /\ exit_code = (IF raised = "none" THEN 0 ELSE 1)
        /\ (selected # {} \/ rounds > 0 \/ last.quiz # 0) => session # "none"

\* a run interrupted in the middle of a task, whose quit() then failed
C10_Witness ==
    /\ pc = "exited"
    /\ raised = "KeyboardInterrupt"
    /\ session = "quit_failed"
    /\ last.outcome = "KeyboardInterrupt"

\* ------------------------------------------------------------------------
\* C11
\* ------------------------------------------------------------------------

\* C11: right after a popup the quiz is the last of the running batch, and
\* right after a RateLimited attempt it is held (or, once the next round has
\* started, queued in its batch); a run completes only with its batch worked
\* off, so in a completed non-dry run no quiz ends on a popup, and a quiz
\* that was ever RateLimited (its first RateLimited attempt is its first
\* attempt that is no popup, in the initial pass) has a later attempt that
\* is no popup.
C11_TransientRetriedOnce ==
    /\ (pc = "batch" /\ last.outcome = "Popup") =>
           (batch # <<>> /\ batch[Len(batch)] = last.quiz)
    /\ (pc = "batch" /\ last.outcome = "RateLimited") =>
           last.quiz \in (Range(rate_limited) \cup Range(batch))
    /\ Completed => batch = <<>>
    /\ (Completed /\ ~dry_run) =>
           \A q \in selected :
               /\ hist[q].att >= 1
               /\ hist[q].pops >= 1 => hist[q].att >= hist[q].pops + 1
               /\ hist[q].rl >= 1 => hist[q].att >= hist[q].pops + 2
               /\ q \in Range(rate_limited) => rounds >= 1

\* a completed run with a quiz that was RateLimited once, then had a popup
\* in the retry round, and was attempted a third time
C11_Witness ==
    /\ Completed
    /\ ~dry_run
    /\ \E q \in selected :
         hist[q].rl = 1 /\ hist[q].pops = 1 /\ hist[q].att = 3 /\ hist[q].rnd = 1

\* ------------------------------------------------------------------------
\* C12
\* ------------------------------------------------------------------------

\* C12: within one call, the export link has been clicked only if both the
\* snapshot of the directory and the snapshot of the window handles have
\* been taken; while a snapshot is still to be taken or the click is still
\* to come, the link has not been clicked; and every handle of the
\* snapshot was a window open before the click, so the windows the click
\* opens are exactly the handles that are not in the snapshot.
C12_SnapshotsBeforeClick ==
    /\ clicked => snapped = {"files", "handles"}
    /\ apc \in {"snapfiles", "snaphandles", "click"} => ~clicked
    /\ apc = "click" => original_handles = handles
    /\ clicked => before_files \subseteq (ListDir(files0) \cup
                      {DoneName(k) : k \in 1..MaxDownloads})

\* the link has been clicked, after both snapshots, and a window opened
C12_Witness ==
    /\ clicked
    /\ apc = "popupcheck"
    /\ snapped = {"files", "handles"}
    /\ Len(handles) > Len(original_handles)

\* ------------------------------------------------------------------------
\* C13
\* ------------------------------------------------------------------------

\* C13: when a call ends with PopupError, the directory has not been
\* polled, the driver is back on the original window, and the open windows
\* are those of the snapshot of the handles, however many windows the
\* click opened.
C13_PopupClosesNewWindows ==
    (apc = "raised" /\ result = "Popup") =>
        /\ elapsed = 0
        /\ focus = original_handles[1]
        /\ Range(handles) = Range(original_handles)

\* ------------------------------------------------------------------------
\* C14
\* ------------------------------------------------------------------------

\* the outcomes a call raises
Failures == {"Popup", "RateLimited", "Timeout", "NotFound", "DriverError"}

\* C14: a call polls the directory at most poll_limit (60) times, elapsed
\* counting the polls one by one; it raises the TimeoutException of the download wait
\* only after the 60th poll, and a path or a RateLimitError that comes from
\* the wait comes from one of the 60 polls; a call that is over has exactly
\* one outcome, a returned path or one raised failure, and a call that runs
\* has none.
C14_AtMostSixtyPolls ==
    /\ elapsed \in 0..poll_limit
    /\ (apc = "raised" /\ result = "Timeout") => elapsed = poll_limit
    /\ (apc = "returned" /\ ~dry_run) => elapsed \in 1..poll_limit
    /\ apc = "returned" <=> result = "Ok"
    /\ apc = "raised" <=> result \in Failures
    /\ apc \notin {"returned", "raised"} <=> result = "none"

\* the wait timed out after 60 polls that saw no popup, no rate-limit
\* phrase and no completed new file; a download is still being written
C14_Witness ==
    /\ apc = "raised"
    /\ result = "Timeout"
    /\ elapsed = poll_limit
    /\ ~rate_phrase
    /\ handles = original_handles
    /\ CompletedFiles(NewFiles(files, before_files)) = {}
    /\ \E k \in 1..MaxDownloads : dl[k] = "partial"

\* ------------------------------------------------------------------------
\* C15
\* ------------------------------------------------------------------------

\* C15: the file a call renames to the canonical name has a name that is
\* not in before_files and does not end with ".crdownload"; it is a
\* download the browser has completed, and it is none of the files the
\* directory held when the call began.
C15_ArtifactIsNewAndComplete ==
    (apc = "returned" /\ ~dry_run) =>
        /\ taken # NoFile
        /\ taken.name \notin before_files
        /\ ~EndsWithCrdownload(taken.name)
        /\ taken.data \in 1..MaxDownloads
        /\ dl[taken.data] = "done"
        /\ taken \notin files0
        /\ \E f \in files : f.name = target_path /\ f.data = taken.data

\* a completed download was taken while another one was still being
\* written and a file older than the call was in the directory
C15_Witness ==
    /\ apc = "returned"
    /\ ~dry_run
    /\ taken.name = DoneName(1)
    /\ PartName(2) \in ListDir(files)
    /\ OldFile \in files
    /\ OldFile.name \in before_files

\* ------------------------------------------------------------------------
\* C16
\* ------------------------------------------------------------------------

\* C16: the file a call takes is one of the completed new files of the poll
\* that took it, none of them has a later modification time, and the others
\* are in the directory as they were; so is every file that is still being
\* written.
C16_LatestTakenOthersUntouched ==
    (apc = "returned" /\ ~dry_run) =>
        /\ taken \in seen
        /\ \A f \in seen : f.mtime <= taken.mtime
        /\ \A f \in seen : f # taken => f \in files
        /\ \A k \in 1..MaxDownloads :
             dl[k] = "partial" => PartName(k) \in ListDir(files)

\* two completed new files were there at the poll that took one
C16_Witness ==
    /\ apc = "returned"
    /\ ~dry_run
    /\ Cardinality(seen) = 2
    /\ \E f \in seen : f.mtime < taken.mtime

\* ------------------------------------------------------------------------
\* C17
\* ------------------------------------------------------------------------

\* C17: when the directory already holds a file with the canonical name, a
\* call that returns has left that file as it was and has stored what it
\* took under the canonical name extended with the time-derived token.
C17_RenameNeverOverwrites ==
    (apc = "returned" /\ ~dry_run /\ EarlierExport \in files0) =>
        /\ EarlierExport \in files
        /\ target_path = UniqueName(TargetName)

\* ------------------------------------------------------------------------
\* C18
\* ------------------------------------------------------------------------

\* C18: a quiz whose attempt succeeded is in no batch, not in the holding
\* list and not in the final report, and it was not attempted again: its
\* only attempt that is neither a popup nor RateLimited is the successful
\* one, and whenever it is the quiz of the latest attempt, that attempt is
\* the success.  In a dry run, where a success writes nothing, no quiz is
\* attempted twice or queued again after its attempt.
C18_SucceededIsFinal ==
    /\ written = {} \/
          /\ written \cap (Range(batch) \cup Range(rate_limited)) = {}
          /\ written \cap ReportedQuizzes = {}
          /\ \A q \in written : hist[q].att = hist[q].pops + hist[q].rl + 1
          /\ last.quiz \in written => last.outcome = "Ok"
    /\ dry_run =>
          \A q \in RowIds :
              /\ hist[q].att <= 1
              /\ hist[q].att = 1 => q \notin (Range(batch) \cup Range(rate_limited))

\* a quiz succeeded in the initial pass and two retry rounds ran after that
C18_Witness ==
    \E q \in written :
        /\ hist[q].rnd = 0
        /\ rounds >= 2
        /\ pc = "exited"
        /\ reported # <<>>

\* ------------------------------------------------------------------------
\* C19
\* ------------------------------------------------------------------------

\* C19: in a dry run, every call that is over and did not lose the browser
\* session has printed the canonical file name of its quiz; the export link is never clicked, the directory
\* holds the files it held when the call began, no call ends with
\* PopupError or RateLimitError, and no retry round or wait takes place.
C19_DryRunNamesEveryQuiz ==
    dry_run =>
        /\ (apc \in {"returned", "raised"} /\ result # "DriverError") =>
               announced = TargetName
        /\ ~clicked
        /\ files = files0
        /\ result \notin {"Popup", "RateLimited"}
        /\ rounds = 0
        /\ waits = <<>>

\* ------------------------------------------------------------------------
\* C20
\* ------------------------------------------------------------------------

\* the first candidate whose wait would return, 0 when there is none
FirstSatisfiable ==
    IF \E i \in 1..Len(cands) : Satisfiable(cands[i])
      THEN CHOOSE i \in 1..Len(cands) :
               /\ Satisfiable(cands[i])
               /\ \A j \in 1..(i - 1) : ~Satisfiable(cands[j])
      ELSE 0

\* C20: the candidates are tried in the order of the list, one at a time;
\* when candidate k is the first satisfiable one and the call is over, it
\* returned elements matched by candidate k, every candidate before k was
\* tried and its wait timed out, and no candidate after k was tried.
C20_FirstSatisfiableWins ==
    /\ tried = [i \in 1..Len(tried) |-> i]
    /\ (rpc \in {"returned", "raised"} /\ FirstSatisfiable # 0) =>
          LET k == FirstSatisfiable
          IN  /\ rpc = "returned"
              /\ rres.by = k
              /\ rres.value # {}
              /\ rres.value \subseteq cands[k].elems
              /\ Len(tried) = k
              /\ \A j \in 1..(k - 1) :
                    j \in Range(tried) /\ ExcOf(cands[j]) = "TimeoutException"

\* ------------------------------------------------------------------------
\* C21
\* ------------------------------------------------------------------------

\* C21: a call that is over has raised if and only if no candidate was
\* satisfiable within its timeout, and what it raised tells about every
\* candidate that was tried, not only about the last one.
C21_FailureListsAllTried ==
    rpc \in {"returned", "raised"} =>
        /\ rpc = "raised" <=> FirstSatisfiable = 0
        /\ rpc = "raised" => Listed(rres) = Range(tried)

\* ------------------------------------------------------------------------
\* C22
\* ------------------------------------------------------------------------

\* C22: when a credential is missing (not set, or empty) or the download
\* directory cannot be created, the process, once past its first step, has
\* exited with a non-zero status and no browser session was ever started;
\* otherwise it does not exit at that step, and a run that completes exits
\* with status 0, whether or not its final report lists quizzes.
C22_StartupFailuresExitNonZero ==
    /\ pc = "start" => session = "none"
    /\ pc # "start" =>
          IF Falsy(environ.email) \/ Falsy(environ.password)
                \/ ~environ.mkdir_ok
            THEN /\ pc = "exited"
                 /\ exit_code # 0
                 /\ session = "none"
                 /\ raised = "SystemExit"
                 /\ last.quiz = 0
            ELSE raised # "SystemExit"
    /\ Completed => exit_code = 0

\* the password is set to the empty string: the process has exited with
\* status 1 and there is no session
C22_Witness ==
    /\ pc = "exited"
    /\ environ.email = "x"
    /\ environ.password = ""
    /\ environ.mkdir_ok
    /\ exit_code = 1
    /\ session = "none"

\* ------------------------------------------------------------------------
\* C23
\* ------------------------------------------------------------------------

\* the rows among the first n of the page whose title link is found, in order
TitledRows(n) ==
    SelectSeq([i \in 1..n |-> i], LAMBDA i : page_rows[i].title_link.found)

\* C23: list_quizzes gives, in the order of the rows, one dictionary for each
\* row whose title link is found and read, and none for the other rows; the
\* dictionary of a row whose date cell is not found has the empty date text;
\* whatever the rows give, the loop goes through all of them and the call
\* returns.
C23_OneDescriptorPerTitledRow ==
    /\ lpc \in {"loop", "returned"} =>
          LET want == TitledRows(li - 1)
          IN  /\ Len(listed) = Len(want)
              /\ \A k \in 1..Len(want) :
                    /\ listed[k].href = want[k]
                    /\ ~page_rows[want[k]].date_cell.found =>
                          listed[k].date_text = <<>>
    /\ lpc = "returned" => li = Len(page_rows) + 1
    /\ lpc = "raised" => page_rows = <<>>

\* the call has returned from a page where a row without title link is
\* followed by a row with a title link and no date cell
C23_Witness ==
    /\ lpc = "returned"
    /\ \E i, j \in 1..Len(page_rows) :
          /\ i < j
          /\ ~page_rows[i].title_link.found
          /\ page_rows[j].title_link.found
          /\ ~page_rows[j].date_cell.found
          /\ \E k \in 1..Len(listed) :
                listed[k].href = j /\ listed[k].date_text = <<>>

\* ------------------------------------------------------------------------
\* C24
\* ------------------------------------------------------------------------

\* "2024-05-01 - Quiz Unit 3_Review - full.csv"
ExampleName ==
    <<"2", "0", "2", "4", "-", "0", "5", "-", "0", "1", " ", "-", " ",
      "Q", "u", "i", "z", " ", "U", "n", "i", "t", " ", "3", "_",
      "R", "e", "v", "i", "e", "w", " ", "-", " ",
      "f", "u", "l", "l", ".", "c", "s", "v">>

\* the name is the first 10 characters of the date text (today's date when
\* it is empty), the sanitized title and "full.csv", joined by " - "
C24_Joined ==
    npc = "named" =>
        target_name =
            (IF date_text = <<>> THEN today
             ELSE SubSeq(date_text, 1, IF Len(date_text) < 10
                                         THEN Len(date_text) ELSE 10))
            \o Dash \o sanitized_title \o Dash \o FullCsv

\* the sanitized title has no illegal character, no run of whitespace and
\* at most 180 characters
C24_Clean ==
    npc = "named" =>
        /\ \A i \in 1..Len(sanitized_title) : sanitized_title[i] \notin Illegal
        /\ \A i \in 1..(Len(sanitized_title) - 1) :
              ~(sanitized_title[i] \in WhiteSpace /\
                sanitized_title[i + 1] \in WhiteSpace)
        /\ Len(sanitized_title) <= 180

\* the sanitized title neither begins nor ends with whitespace
C24_Trimmed ==
    (npc = "named" /\ sanitized_title # <<>>) =>
        /\ sanitized_title[1] \notin WhiteSpace
        /\ sanitized_title[Len(sanitized_title)] \notin WhiteSpace

\* the name of the example
C24_Example ==
    (npc = "named" /\ title = ExampleTitle /\ date_text = ExampleDate) =>
        target_name = ExampleName

\* C24: the name built for the title "Quiz: Unit 3/Review" and the date text
\* "2024-05-01T10:00" is "2024-05-01 - Quiz Unit 3_Review - full.csv"; every
\* name is date part, sanitized title and "full.csv" joined by " - ", and the
\* sanitized title has no illegal character, no whitespace at either end, no
\* run of whitespace and at most 180 characters.
C24_CanonicalName == C24_Example /\ C24_Joined /\ C24_Clean /\ C24_Trimmed

\* ------------------------------------------------------------------------
\* C25
\* ------------------------------------------------------------------------

\* C25: a poll looks at the rate-limit phrase before the directory: a call
\* never takes a file while the phrase is on the page, and a call that
\* raised RateLimitError has taken none.  A completed new file that was in
\* the directory at such a poll stays there under its own name, with its
\* contents; it is in the snapshot of the directory of every later call, and
\* no call renames it.
C25_RateLimitBeforeDirectory ==
    /\ (apc = "returned" /\ taken # NoFile) => ~rate_phrase
    /\ (apc = "raised" /\ result = "RateLimited") =>
          taken = NoFile
    /\ \A f \in stranded :
          /\ f \in files
          /\ taken # f
          /\ (apc # "raised" /\ "files" \in snapped) =>
                 f.name \in before_files

\* a later call has taken its snapshot while a file stranded by an earlier
\* RateLimitError is in the directory
C25_Witness ==
    /\ stranded # {}
    /\ "files" \in snapped
    /\ apc = "poll"

\* ------------------------------------------------------------------------
\* C26
\* ------------------------------------------------------------------------

RECURSIVE SumAtt(_, _)
SumAtt(h, n) == IF n = 0 THEN 0 ELSE h[n].att + SumAtt(h, n - 1)

\* the calls of open_quiz_and_download made so far in the run
TotalAtt == SumAtt(hist, MaxQuizzes)

\* C26: a quiz is attempted once in each pass it is part of, and once more
\* for each of its attempts that ended in a popup: its attempts number at
\* most 1 + the rounds begun + its popups, hence at most 1 + max_rounds + its
\* popups, and at most 4 when it met no popup.  A run without popups makes at
\* most (1 + max_rounds) attempts per selected quiz, and attempts no other.
C26_AttemptsBounded ==
    /\ \A q \in RowIds :
          /\ hist[q].att <= 1 + rounds + hist[q].pops
          /\ hist[q].att <= 1 + max_rounds + hist[q].pops
          /\ hist[q].pops = 0 => hist[q].att <= 4
          /\ q \notin selected => hist[q].att = 0
    /\ TotalPops = 0 => TotalAtt <= (1 + max_rounds) * Cardinality(selected)

\* a quiz that met no popup has been attempted in the initial pass and in
\* every one of the retry rounds
C26_Witness ==
    \E q \in selected :
        /\ hist[q].pops = 0
        /\ hist[q].att = 1 + max_rounds
        /\ hist[q].rl = 1 + max_rounds

====
